---- MODULE Spec2Model ----
(***************************************************************************)
(* Model of the AI Code Explainer (src/app.py): a Streamlit script that is *)
(* re-executed from top to bottom on every user interaction.  The state is *)
(* what survives between two executions: the session store, the state of   *)
(* the input widgets, the secrets the host supplies, and the page the last *)
(* execution rendered.  Every user interaction is one action that runs the *)
(* script up to the point where it hands control over: its end, the call  *)
(* of st.rerun(), or the entry into the blocking remote call.              *)
(*                                                                         *)
(* Widget semantics assumed from the Streamlit library: a widget without a *)
(* key is identified by its parameters; as long as the identity is the     *)
(* same from one execution to the next the widget returns the value the    *)
(* user last entered, and a widget with a new identity returns its value    *)
(* parameter.  A button returns True only in the execution its click       *)
(* triggers.  st.rerun() stops the execution and starts a new one.         *)
(***************************************************************************)
EXTENDS Integers, Sequences, FiniteSets, TLC

VARIABLES
    secrets,               \* st.secrets: the host's secret store, a mapping
    session_state,         \* st.session_state: a mapping key -> string
    text_area,             \* widget state of the code box: identity -> value
    programming_language,  \* current selection of the language selectbox
    complexity_level,      \* current selection of the level selectbox
    page,                  \* what the last execution rendered so far
    run,                   \* log of the last interaction (calls it made)
    previous               \* outcome of the Explain action before it (history)

vars == <<secrets, session_state, text_area, programming_language,
          complexity_level, page, run, previous>>

(***************************************************************************)
(* Bounds of the model.                                                    *)
(***************************************************************************)
\* the user picks among the first NumLanguageChoices entries of the list
NumLanguageChoices == 3

(***************************************************************************)
(* Literals of the program.                                                *)
(***************************************************************************)
Languages ==
    <<"Python", "JavaScript", "Java", "C++", "C", "C#", "Go", "Rust",
      "Ruby", "PHP", "Swift", "Kotlin", "Other">>

Levels == <<"Beginner", "Intermediate", "Advanced">>

complexity_prompts ==
    [Beginner |-> "Explain this code in very simple terms, as if talking to someone who just started programming. Use everyday language and avoid technical jargon.",
     Intermediate |-> "Explain this code clearly, including the main concepts and how different parts work together. Use some technical terms but explain them.",
     Advanced |-> "Provide a detailed technical explanation of this code, including algorithms, design patterns, and performance considerations."]

SystemMessage ==
    "You are an expert programming instructor who excels at explaining code in clear, understandable language. Always be encouraging and educational."

ModelName == "llama3-8b-8192"
MaxTokens == 1500

BtnPythonList == "Python List Comprehension"
BtnJavaScript == "JavaScript Function"
BtnPythonClass == "Python Class"
BtnClear == "Clear Code"
BtnExplain == "Explain Code"
NoButton == "(none)"

SamplePythonList ==
    "numbers = [1, 2, 3, 4, 5, 6, 7, 8, 9, 10]\neven_squares = [x**2 for x in numbers if x % 2 == 0]\nprint(even_squares)"

SampleJavaScript ==
    "function fibonacci(n) {\n    if (n <= 1) return n;\n    return fibonacci(n - 1) + fibonacci(n - 2);\n}\n\nconsole.log(fibonacci(10));"

SamplePythonClass ==
    "class Calculator:\n    def __init__(self):\n        self.history = []\n    \n    def add(self, a, b):\n        result = a + b\n        self.history.append(f\"{a} + {b} = {result}\")\n        return result\n        \ncalc = Calculator()\nprint(calc.add(5, 3))"

SampleButtons == {BtnPythonList, BtnJavaScript, BtnPythonClass}

SampleOf(button) ==
    CASE button = BtnPythonList -> SamplePythonList
      [] button = BtnJavaScript -> SampleJavaScript
      [] button = BtnPythonClass -> SamplePythonClass

WarnNoCode == "Please enter some code to explain!"
ErrNoKey == "Please enter your Groq API key in the sidebar!"
ErrNoClient == "Failed to initialize Groq client. Please check your API key."
ErrInitPrefix == "Error initializing Groq client: "
ErrExplainPrefix == "Error explaining code: "
MsgKeySaved == "API Key saved!"
DivOpen == "<div class=\"explanation-container\">"
DivClose == "</div>"
SpinnerText == "Analyzing your code..."

(***************************************************************************)
(* Python helpers.                                                         *)
(***************************************************************************)
\* dict.get(key, default)
Get(d, key, default) == IF key \in DOMAIN d THEN d[key] ELSE default

\* d[key] = value
Put(d, key, value) ==
    [k \in DOMAIN d \cup {key} |-> IF k = key THEN value ELSE d[k]]

\* a credential test that lets the empty string through
TruthyNotNone(s) == TRUE

\* truth value of a string (or None, which Get renders as ""): "if s"
Truthy(s) == s # ""

\* the characters str.isspace() holds for, among those a string of this
\* module can hold (up to U+00FF): tab, line feed, vertical tab, form feed,
\* carriage return, the separators U+001C to U+001F, space, U+0085, U+00A0
Whitespace ==
    {"\t", "\n", "", "\f", "\r", "", "", "", "", " ",
     "", " "}

RECURSIVE LStrip(_)
LStrip(s) ==
    IF Len(s) > 0 /\ SubSeq(s, 1, 1) \in Whitespace
    THEN LStrip(SubSeq(s, 2, Len(s)))
    ELSE s

RECURSIVE RStrip(_)
RStrip(s) ==
    IF Len(s) > 0 /\ SubSeq(s, Len(s), Len(s)) \in Whitespace
    THEN RStrip(SubSeq(s, 1, Len(s) - 1))
    ELSE s

\* a strip that strips nothing
StripNothing(s) == s

\* str.strip()
Strip(s) == RStrip(LStrip(s))

\* str.lower() on the labels of the language list
Lower(label) ==
    CASE label = "Python" -> "python"
      [] label = "JavaScript" -> "javascript"
      [] label = "Java" -> "java"
      [] label = "C++" -> "c++"
      [] label = "C" -> "c"
      [] label = "C#" -> "c#"
      [] label = "Go" -> "go"
      [] label = "Rust" -> "rust"
      [] label = "Ruby" -> "ruby"
      [] label = "PHP" -> "php"
      [] label = "Swift" -> "swift"
      [] label = "Kotlin" -> "kotlin"
      [] label = "Other" -> "other"

(***************************************************************************)
(* What the environment can do to a call, drawn from small sets.           *)
(***************************************************************************)
\* Groq(api_key=...): "" when it returns a client, else the text of the
\* exception it raises
ConstructOutcomes ==
    {"", "Client.__init__() got an unexpected keyword argument 'proxies'"}

FaultDetails ==
    {"Connection error.",
     "Error code: 401 - Invalid API Key",
     "Error code: 503 - Service Unavailable"}

\* the content of each choice of a response; <<>> is a response without choices
ChoiceLists == {<<>>, <<"X">>, <<"  padded \n">>, <<"first", "second">>}

\* client.chat.completions.create(...): raises, or returns a response
RemoteOutcomes ==
    {[kind |-> "raise", detail |-> d, choices |-> <<>>] : d \in FaultDetails}
    \cup
    {[kind |-> "response", detail |-> "", choices |-> c] : c \in ChoiceLists}

\* what the user can type into the code box
TypedTexts ==
    {"", " \n\t ", "", "x = 1", "  y = 2\n",
     SamplePythonList \o "\n# edited"}

EmptyDict == [k \in {} |-> ""]

SecretStores ==
    {EmptyDict, [GROQ_API_KEY |-> ""], [GROQ_API_KEY |-> "gsk_test_key"]}

LanguageChoices == {Languages[i] : i \in 1..NumLanguageChoices}
LevelChoices == {Levels[i] : i \in 1..Len(Levels)}

(***************************************************************************)
(* initialize_groq_client                                                  *)
(***************************************************************************)
\* a construction whose exception is swallowed and a client returned anyway
initialize_groq_client_swallow(ss, construct) ==
    LET api_key == Get(ss, "groq_api_key", "")
    IN  [client |-> <<[api_key |-> api_key]>>,
         constructions |-> <<[api_key |-> api_key, raised |-> construct]>>,
         errors |-> <<>>]

\* a construction that forgets to return the client
initialize_groq_client_none(ss, construct) ==
    LET api_key == Get(ss, "groq_api_key", "")
    IN  [client |-> <<>>,
         constructions |-> <<[api_key |-> api_key, raised |-> construct]>>,
         errors |-> <<>>]

\* client is <<>> for None, else <<the client>>; constructions lists the
\* calls of Groq(...), each with its key and the exception text it raised
\* ("" for none); errors lists the st.error messages
initialize_groq_client(ss, construct) ==
    LET api_key == Get(ss, "groq_api_key", "")
    IN  IF Truthy(api_key)
        THEN IF construct = ""
             THEN [client |-> <<[api_key |-> api_key]>>,
                   constructions |->
                     <<[api_key |-> api_key, raised |-> ""]>>,
                   errors |-> <<>>]
             ELSE [client |-> <<>>,
                   constructions |->
                     <<[api_key |-> api_key, raised |-> construct]>>,
                   errors |-> <<[kind |-> "error",
                                 body |-> ErrInitPrefix \o construct]>>]
        ELSE [client |-> <<>>, constructions |-> <<>>, errors |-> <<>>]

(***************************************************************************)
(* explain_code                                                            *)
(***************************************************************************)
\* a table in which Intermediate shares the Beginner text
InstructionCollapsed(level) ==
    complexity_prompts[IF level = "Intermediate" THEN "Beginner" ELSE level]

Instruction(level) == complexity_prompts[level]

\* the three backquotes that open and close the fenced block (the parser
\* needs a backquote in a string to be closed by a quote, cut off here)
Fence == SubSeq("```'", 1, 3)

BuildPrompt(instruction, language, code_snippet) ==
    "\n        " \o instruction
    \o "\n        \n        Programming Language: " \o language
    \o "\n        \n        Code to explain:\n        " \o Fence \o Lower(language)
    \o "\n        " \o code_snippet
    \o "\n        " \o Fence \o "\n        \n        Please provide:"
    \o "\n        1. A brief overview of what the code does"
    \o "\n        2. Step-by-step explanation of each part"
    \o "\n        3. Key concepts or techniques used"
    \o "\n        4. Any potential improvements or considerations (if applicable)"
    \o "\n        \n        Format your response in a clear, easy-to-read manner."
    \o "\n        "

ChatRequest(client, prompt) ==
    [api_key |-> client.api_key,
     messages |-> <<[role |-> "system", content |-> SystemMessage],
                    [role |-> "user", content |-> prompt]>>,
     model |-> ModelName,
     temperature |-> "0.3",
     max_tokens |-> MaxTokens]

\* a request that is sent twice
SendWithRetry(client, prompt) ==
    <<ChatRequest(client, prompt), ChatRequest(client, prompt)>>

\* the request client.chat.completions.create(...) hands to the remote
\* service: one outbound call
Send(client, prompt) == <<ChatRequest(client, prompt)>>

\* client.chat.completions.create(...): the call blocks until it meets the
\* answer the environment chose
Create(client, prompt, remote) ==
    [requests |-> Send(client, prompt), answers |-> <<remote>>]

\* a result that is trimmed before it is returned
FirstChoiceStripped(remote) ==
    IF remote.choices = <<>>
    THEN ErrExplainPrefix \o "list index out of range"
    ELSE Strip(remote.choices[1])

\* the value the try block yields for a call that does not raise
FirstChoice(remote) ==
    IF remote.choices = <<>>
    THEN ErrExplainPrefix \o "list index out of range"
    ELSE remote.choices[1]

\* an except branch that returns the bare detail
ErrorTextBare(detail) == detail

\* the except branch
ErrorText(detail) == ErrExplainPrefix \o detail

Quote == "'"
DoubleQuote == "\""
Backslash == "\\"

RECURSIVE Contains(_, _)
Contains(s, c) ==
    /\ Len(s) > 0
    /\ (SubSeq(s, 1, 1) = c \/ Contains(SubSeq(s, 2, Len(s)), c))

\* the quote repr() puts around a string
ReprQuote(s) ==
    IF Contains(s, Quote) /\ ~Contains(s, DoubleQuote)
    THEN DoubleQuote ELSE Quote

\* how repr() writes one character inside the quote q: the characters up
\* to U+00FF that are not printable (U+0001-U+001F, U+007F-U+00A0, U+00AD)
\* are written as escapes
ReprChar(c, q) ==
    CASE c = q -> Backslash \o c
      [] c = Backslash -> Backslash \o Backslash
      [] c = "\t" -> "\\t"
      [] c = "\n" -> "\\n"
      [] c = "\r" -> "\\r"
      [] c = "" -> "\\x01"
      [] c = "" -> "\\x02"
      [] c = "" -> "\\x03"
      [] c = "" -> "\\x04"
      [] c = "" -> "\\x05"
      [] c = "" -> "\\x06"
      [] c = "" -> "\\x07"
      [] c = "" -> "\\x08"
      [] c = "" -> "\\x0b"
      [] c = "" -> "\\x0c"
      [] c = "" -> "\\x0e"
      [] c = "" -> "\\x0f"
      [] c = "" -> "\\x10"
      [] c = "" -> "\\x11"
      [] c = "" -> "\\x12"
      [] c = "" -> "\\x13"
      [] c = "" -> "\\x14"
      [] c = "" -> "\\x15"
      [] c = "" -> "\\x16"
      [] c = "" -> "\\x17"
      [] c = "" -> "\\x18"
      [] c = "" -> "\\x19"
      [] c = "" -> "\\x1a"
      [] c = "" -> "\\x1b"
      [] c = "" -> "\\x1c"
      [] c = "" -> "\\x1d"
      [] c = "" -> "\\x1e"
      [] c = "" -> "\\x1f"
      [] c = "" -> "\\x7f"
      [] c = "" -> "\\x80"
      [] c = "" -> "\\x81"
      [] c = "" -> "\\x82"
      [] c = "" -> "\\x83"
      [] c = "" -> "\\x84"
      [] c = "" -> "\\x85"
      [] c = "" -> "\\x86"
      [] c = "" -> "\\x87"
      [] c = "" -> "\\x88"
      [] c = "" -> "\\x89"
      [] c = "" -> "\\x8a"
      [] c = "" -> "\\x8b"
      [] c = "" -> "\\x8c"
      [] c = "" -> "\\x8d"
      [] c = "" -> "\\x8e"
      [] c = "" -> "\\x8f"
      [] c = "" -> "\\x90"
      [] c = "" -> "\\x91"
      [] c = "" -> "\\x92"
      [] c = "" -> "\\x93"
      [] c = "" -> "\\x94"
      [] c = "" -> "\\x95"
      [] c = "" -> "\\x96"
      [] c = "" -> "\\x97"
      [] c = "" -> "\\x98"
      [] c = "" -> "\\x99"
      [] c = "" -> "\\x9a"
      [] c = "" -> "\\x9b"
      [] c = "" -> "\\x9c"
      [] c = "" -> "\\x9d"
      [] c = "" -> "\\x9e"
      [] c = "" -> "\\x9f"
      [] c = " " -> "\\xa0"
      [] c = "­" -> "\\xad"
      [] OTHER -> c

RECURSIVE ReprBody(_, _)
ReprBody(s, q) ==
    IF Len(s) = 0
    THEN ""
    ELSE ReprChar(SubSeq(s, 1, 1), q) \o ReprBody(SubSeq(s, 2, Len(s)), q)

\* repr(s) for a string s
Repr(s) == ReprQuote(s) \o ReprBody(s, ReprQuote(s)) \o ReprQuote(s)

\* str(KeyError(key)): the repr of the key
KeyErrorText(key) == Repr(key)

\* ret is the return value, requests the outbound calls made, answers what
\* each call met, instruction the template selected
\* the try block after the template lookup: call is what create(...) did
TryBlock(instruction, call, remote) ==
    [ret |-> IF remote.kind = "raise"
             THEN ErrorText(remote.detail)
             ELSE FirstChoice(remote),
     requests |-> call.requests,
     answers |-> call.answers,
     instruction |-> instruction]

WithInstruction(instruction, client, code_snippet, language, remote) ==
    TryBlock(instruction,
               Create(client,
                      BuildPrompt(instruction, language, code_snippet),
                      remote),
               remote)

explain_code(client, code_snippet, language, level, remote) ==
    IF level \notin DOMAIN complexity_prompts
    THEN [ret |-> ErrorText(KeyErrorText(level)),
          requests |-> <<>>,
          answers |-> <<>>,
          instruction |-> ""]
    ELSE WithInstruction(Instruction(level), client, code_snippet, language,
                         remote)

(***************************************************************************)
(* main: one execution of the script.  The stages take the values computed *)
(* so far as parameters, in the order in which the script computes them.   *)
(***************************************************************************)
Element(kind, body) == [kind |-> kind, body |-> body]

\* if api_key: st.session_state['groq_api_key'] = api_key
StoreCredential(ss, api_key) ==
    IF Truthy(api_key) THEN Put(ss, "groq_api_key", api_key) ELSE ss

\* if st.button(label): st.session_state['sample_code'] = snippet
StoreSample(ss, button, label, snippet) ==
    IF button = label THEN Put(ss, "sample_code", snippet) ELSE ss

SidebarMessages(api_key) ==
    IF Truthy(api_key) THEN <<Element("success", MsgKeySaved)>> ELSE <<>>

\* the sidebar: the credential is copied from the secrets into the session
\* store, then each sample button that was clicked stores its snippet
Sidebar(sec, ss, button) ==
    [session_state |->
        StoreSample(
            StoreSample(
                StoreSample(
                    StoreCredential(ss, Get(sec, "GROQ_API_KEY", "")),
                    button, BtnPythonList, SamplePythonList),
                button, BtnJavaScript, SampleJavaScript),
            button, BtnPythonClass, SamplePythonClass),
     sidebar |-> SidebarMessages(Get(sec, "GROQ_API_KEY", ""))]

\* st.text_area(..., value=value) without a key: the value parameter is the
\* only parameter that varies, so it stands for the widget identity
TextAreaId(value) == value

\* the value the widget returns: what the user entered into the widget of
\* this identity, or the value parameter when the identity is new
TextAreaValue(widgets, value) ==
    IF TextAreaId(value) \in DOMAIN widgets
    THEN widgets[TextAreaId(value)]
    ELSE value

TextArea(widgets, value) ==
    [ret |-> TextAreaValue(widgets, value),
     widgets |-> (TextAreaId(value) :> TextAreaValue(widgets, value))]

NoCalls ==
    [constructions |-> <<>>, invocations |-> <<>>, requests |-> <<>>,
     answers |-> <<>>, returned |-> <<>>, instruction |-> "", outcome |-> ""]

\* the outcome of a call, as the page will show it
OutcomeOf(answers) ==
    IF answers[1].kind = "raise" \/ answers[1].choices = <<>>
    THEN "remote_error" ELSE "success"

\* the spinner block up to the entry into client.chat.completions.create:
\* the spinner is on the page, the request is handed over, the answer is
\* waited for.  The level comes from the selectbox, so the lookup of the
\* instruction succeeds
AwaitAnswer(init, code_snippet, language, level) ==
    [col2 |-> init.errors \o <<Element("spinner", SpinnerText)>>,
     calls |-> [constructions |-> init.constructions,
                invocations |-> <<[code_snippet |-> code_snippet,
                                   programming_language |-> language,
                                   complexity_level |-> level]>>,
                requests |-> Send(init.client[1],
                                  BuildPrompt(Instruction(level), language,
                                              code_snippet)),
                answers |-> <<>>,
                returned |-> <<>>,
                instruction |-> Instruction(level),
                outcome |-> "waiting"]]

\* the three st.markdown calls that follow: the spinner gives way to the
\* explanation
ShowExplanation(col2, explanation) ==
    SelectSeq(col2, LAMBDA el : el.kind # "spinner")
    \o <<Element("markdown", DivOpen),
         Element("markdown", explanation),
         Element("markdown", DivClose)>>

\* "if client: ... else: ...": init is what initialize_groq_client returned
WithClient(init, code_snippet, language, level) ==
    IF init.client # <<>>
    THEN AwaitAnswer(init, code_snippet, language, level)
    ELSE [col2 |-> init.errors \o <<Element("error", ErrNoClient)>>,
          calls |-> [NoCalls EXCEPT !.constructions = init.constructions,
                                    !.outcome = "no_client"]]

\* the right column: the body of "if st.button('Explain Code')"
ExplainPane(ss, code_snippet, language, level, construct) ==
    IF ~Truthy(Strip(code_snippet))
    THEN [col2 |-> <<Element("warning", WarnNoCode)>>,
          calls |-> [NoCalls EXCEPT !.outcome = "warning"]]
    ELSE IF ~Truthy(Get(ss, "groq_api_key", ""))
    THEN [col2 |-> <<Element("error", ErrNoKey)>>,
          calls |-> [NoCalls EXCEPT !.outcome = "no_key"]]
    ELSE WithClient(initialize_groq_client(ss, construct), code_snippet,
                    language, level)

\* a handler that remembers in the session store that an attempt failed and
\* refuses the attempts that follow
FinishLatched(sb, ta, ex) ==
    IF ex.calls.outcome # "" /\ Get(sb.session_state, "failed", "") # ""
    THEN [rerun |-> FALSE,
          session_state |-> sb.session_state,
          text_area |-> ta.widgets,
          page |-> [code_input |-> ta.ret, sidebar |-> sb.sidebar,
                    col2 |-> <<Element("error", ErrNoClient)>>],
          calls |-> [NoCalls EXCEPT !.outcome = "no_client"]]
    ELSE [rerun |-> FALSE,
          session_state |->
              IF ex.calls.outcome \in {"warning", "no_key", "no_client"}
              THEN Put(sb.session_state, "failed", "1")
              ELSE sb.session_state,
          text_area |-> ta.widgets,
          page |-> [code_input |-> ta.ret, sidebar |-> sb.sidebar,
                    col2 |-> ex.col2],
          calls |-> ex.calls]

\* an execution that did not stop in st.rerun(): ex is what the right
\* column did
Finish(sb, ta, ex) ==
    [rerun |-> FALSE,
     session_state |-> sb.session_state,
     text_area |-> ta.widgets,
     page |-> [code_input |-> ta.ret, sidebar |-> sb.sidebar,
               col2 |-> ex.col2],
     calls |-> ex.calls]

\* the columns: sb is what the sidebar did, ta what the text area returned
Columns(sb, ta, language, level, button, construct) ==
    IF button = BtnClear
    THEN [rerun |-> TRUE,
          session_state |-> Put(sb.session_state, "sample_code", ""),
          text_area |-> ta.widgets,
          page |-> [code_input |-> ta.ret, sidebar |-> sb.sidebar,
                    col2 |-> <<>>],
          calls |-> [NoCalls EXCEPT !.outcome = "rerun"]]
    ELSE IF button = BtnExplain
    THEN Finish(sb, ta, ExplainPane(sb.session_state, ta.ret, language,
                                    level, construct))
    ELSE Finish(sb, ta, [col2 |-> <<>>, calls |-> NoCalls])

\* the text area is called once and its return value used from then on
AfterSidebar(sb, widgets, language, level, button, construct) ==
    CHOOSE r \in {Columns(sb, ta, language, level, button, construct) :
                     ta \in {TextArea(widgets, Get(sb.session_state,
                                                   "sample_code", ""))}} :
        TRUE

\* one execution of main(), up to its end, to st.rerun() (rerun tells so)
\* or to the entry into the remote call
Main(sec, ss, widgets, language, level, button, construct) ==
    CHOOSE r \in {AfterSidebar(sb, widgets, language, level, button,
                               construct) :
                     sb \in {Sidebar(sec, ss, button)}} :
        TRUE

\* the variables after the execution r; button is the interaction that
\* led to it and construct what the environment had Groq(...) do, were it
\* called.  The outcome of an Explain action is kept in previous when the
\* next interaction replaces the log
Commit(r, language, level, button, construct) ==
    \E done \in {r} :
        /\ session_state' = done.session_state
        /\ text_area' = done.text_area
        /\ programming_language' = language
        /\ complexity_level' = level
        /\ page' = done.page
        /\ run' = [button |-> button, construct |-> construct] @@ done.calls
        /\ previous' = IF run.button = BtnExplain
                       THEN run.outcome ELSE previous
        /\ UNCHANGED secrets

\* the execution a browser event triggers: pressed is the button that
\* returns True in it
Apply(widgets, language, level, pressed, construct) ==
    Commit(Main(secrets, session_state, widgets, language, level, pressed,
                construct),
           language, level, pressed, construct)

(***************************************************************************)
(* The session starts with one execution of the script.                    *)
(***************************************************************************)
\* no client is constructed: the value of this input is not used
NoConstruct == ""

Start(sec, r) ==
    /\ secrets = sec
    /\ session_state = r.session_state
    /\ text_area = r.text_area
    /\ programming_language = Languages[1]
    /\ complexity_level = Levels[1]
    /\ page = r.page
    /\ run = [button |-> NoButton, construct |-> NoConstruct] @@ r.calls
    /\ previous = ""

Init ==
    \E sec \in SecretStores :
        Start(sec, Main(sec, EmptyDict, EmptyDict, Languages[1], Levels[1],
                        NoButton, NoConstruct))

(***************************************************************************)
(* User interactions.  A browser event can arrive at any time: while an    *)
(* execution waits for the remote call or before it has rendered the      *)
(* explanation, the event stops it at its next st call and the script is  *)
(* executed anew; while a rerun is requested, the event is read by the    *)
(* execution that follows.                                                 *)
(***************************************************************************)
\* the widgets are on the page once the script has run
Rendered == DOMAIN text_area # {}

\* the user replaces the content of the code box
TypeCode(text) ==
    /\ Rendered
    /\ text # page.code_input
    /\ Apply([id \in DOMAIN text_area |-> text], programming_language,
             complexity_level, NoButton, NoConstruct)

SelectLanguage(language) ==
    /\ Rendered
    /\ language # programming_language
    /\ Apply(text_area, language, complexity_level, NoButton, NoConstruct)

SelectLevel(level) ==
    /\ Rendered
    /\ level # complexity_level
    /\ Apply(text_area, programming_language, level, NoButton, NoConstruct)

LoadSample(button) ==
    /\ Rendered
    /\ Apply(text_area, programming_language, complexity_level, button,
             NoConstruct)

\* the click runs the script up to st.rerun(): sample_code is '' and the
\* script runner is to start the script again
ClearCode ==
    /\ Rendered
    /\ Apply(text_area, programming_language, complexity_level, BtnClear,
             NoConstruct)

\* the script runner starts the script again after st.rerun(), no event
\* having arrived meanwhile: no button is pressed in this execution
RerunScript ==
    /\ run.outcome = "rerun"
    /\ Commit(Main(secrets, session_state, text_area, programming_language,
                   complexity_level, NoButton, NoConstruct),
              programming_language, complexity_level, run.button, NoConstruct)

\* the click runs the script to its end when no call is made, else up to
\* the entry into the remote call
ExplainCode(construct) ==
    /\ Rendered
    /\ Apply(text_area, programming_language, complexity_level, BtnExplain,
             construct)

\* what the waiting execution does with the answer e of the try block
Receive(e) ==
    /\ run' = [run EXCEPT !.answers = e.answers,
                          !.returned = <<e.ret>>,
                          !.outcome = "pending"]
    /\ UNCHANGED <<secrets, session_state, text_area, programming_language,
                   complexity_level, page, previous>>

\* the remote call ends, by an answer or by an exception, and explain_code
\* returns
ReceiveAnswer(remote) ==
    /\ run.outcome = "waiting"
    /\ Receive(TryBlock(run.instruction,
                        [requests |-> run.requests, answers |-> <<remote>>],
                        remote))

\* the execution goes on after the spinner block and renders what
\* explain_code returned
RenderExplanation ==
    /\ run.outcome = "pending"
    /\ page' = [page EXCEPT !.col2 = ShowExplanation(@, run.returned[1])]
    /\ run' = [run EXCEPT !.outcome = OutcomeOf(run.answers)]
    /\ UNCHANGED <<secrets, session_state, text_area, programming_language,
                   complexity_level, previous>>

\* the host changes the secret store; the script reads it at the start of
\* its next execution
SecretsChanged(sec) ==
    /\ sec # secrets
    /\ secrets' = sec
    /\ UNCHANGED <<session_state, text_area, programming_language,
                   complexity_level, page, run, previous>>

Next ==
    \/ \E text \in TypedTexts : TypeCode(text)
    \/ \E language \in LanguageChoices : SelectLanguage(language)
    \/ \E level \in LevelChoices : SelectLevel(level)
    \/ \E button \in SampleButtons : LoadSample(button)
    \/ ClearCode
    \/ RerunScript
    \/ \E construct \in ConstructOutcomes : ExplainCode(construct)
    \/ \E remote \in RemoteOutcomes : ReceiveAnswer(remote)
    \/ RenderExplanation
    \/ \E sec \in SecretStores : SecretsChanged(sec)

Spec == Init /\ [][Next]_vars

(***************************************************************************)
(* Properties.                                                             *)
(***************************************************************************)
StartsWith(s, prefix) ==
    Len(s) >= Len(prefix) /\ SubSeq(s, 1, Len(prefix)) = prefix

\* every character of s is a whitespace character (s may be empty)
IsBlank(s) == \A i \in 1..Len(s) : SubSeq(s, i, i) \in Whitespace

Credential == Get(session_state, "groq_api_key", "")

Explained == run.button = BtnExplain

\* the client was constructed in the last interaction
ClientBuilt ==
    Len(run.constructions) = 1 /\ run.constructions[1].raised = ""

\* the last Explain action passed the input checks and got its client
PassedChecks ==
    /\ Explained
    /\ ~IsBlank(page.code_input)
    /\ Credential # ""
    /\ ClientBuilt

\* the explanation pane once the explanation text is rendered
Explanation(text) ==
    <<Element("markdown", DivOpen), Element("markdown", text),
      Element("markdown", DivClose)>>

\* C1: after the Clear Code action and the execution it requests, the code
\* box reads back as empty, whatever it held before.
C1_ClearReadsEmpty ==
    (run.button = BtnClear /\ run.outcome # "rerun") => page.code_input = ""

\* C2: after a sample-load action the code box read in that run equals the
\* snippet of the button, whatever it held before.
C2_SampleOverwrites ==
    run.button \in SampleButtons => page.code_input = SampleOf(run.button)

\* C3: an Explain action on empty or whitespace-only code constructs no
\* client, does not invoke explain_code, sends nothing, shows the warning
\* and renders no explanation, whatever the credential, language and level.
C3_BlankCodeNeverExplained ==
    (Explained /\ IsBlank(page.code_input)) =>
        /\ run.constructions = <<>>
        /\ run.invocations = <<>>
        /\ run.requests = <<>>
        /\ page.col2 = <<Element("warning", WarnNoCode)>>

C3_Witness ==
    /\ Explained
    /\ page.code_input = ""
    /\ Credential # ""
    /\ complexity_level = "Advanced"
    /\ run.outcome = "warning"

\* C4: while the session store holds no non-empty groq_api_key, no Explain
\* action invokes explain_code or sends a request, whatever the code is.
C4_NoCredentialNeverExplained ==
    Credential = "" =>
        /\ run.invocations = <<>>
        /\ run.requests = <<>>
        /\ (Explained /\ ~IsBlank(page.code_input)) =>
               page.col2 = <<Element("error", ErrNoKey)>>

C4_Witness ==
    /\ Explained
    /\ Credential = ""
    /\ page.code_input = SampleJavaScript
    /\ previous = "no_key"
    /\ run.outcome = "no_key"

\* C5: when the remote call raises or returns a response without choices,
\* explain_code returns normally a string that starts with
\* "Error explaining code: " followed by the fault detail, and the caller
\* renders it once the execution goes on past the spinner.
C5_FaultReturnedAsText ==
    \A i \in 1..Len(run.answers) :
        (run.answers[i].kind = "raise" \/ run.answers[i].choices = <<>>) =>
            /\ Len(run.returned) = Len(run.invocations)
            /\ Len(run.answers) = Len(run.requests)
            /\ StartsWith(run.returned[i], ErrExplainPrefix)
            /\ Len(run.returned[i]) > Len(ErrExplainPrefix)
            /\ run.answers[i].kind = "raise" =>
                   run.returned[i] = ErrExplainPrefix \o run.answers[i].detail
            /\ run.outcome = "pending" =>
                   page.col2 = <<Element("spinner", SpinnerText)>>
            /\ run.outcome # "pending" =>
                   /\ run.outcome = "remote_error"
                   /\ page.col2 = Explanation(run.returned[i])

C5_Witness ==
    /\ Len(run.answers) = 1
    /\ run.answers[1].kind = "raise"
    /\ run.answers[1].detail = "Error code: 401 - Invalid API Key"
    /\ run.returned = <<"Error explaining code: Error code: 401 - Invalid API Key">>
    /\ run.outcome = "remote_error"

\* C6: when the remote call returns a response whose first choice has the
\* content X, explain_code returns exactly X.
C6_SuccessReturnedVerbatim ==
    \A i \in 1..Len(run.answers) :
        (run.answers[i].kind = "response" /\ run.answers[i].choices # <<>>) =>
            /\ Len(run.returned) = Len(run.invocations)
            /\ Len(run.answers) = Len(run.requests)
            /\ run.returned[i] = run.answers[i].choices[1]

C6_Witness ==
    /\ Len(run.answers) = 1
    /\ run.answers[1].kind = "response"
    /\ run.returned = <<"  padded \n">>
    /\ complexity_level = "Intermediate"

\* C7: every invocation of explain_code makes exactly one outbound call,
\* whether it fails or not; an Explain action that passes the checks makes
\* one call, any other interaction makes none.
C7_OneCallPerInvocation ==
    /\ Len(run.requests) = Len(run.invocations)
    /\ Len(run.requests) = IF PassedChecks THEN 1 ELSE 0

C7_Witness ==
    /\ PassedChecks
    /\ Len(run.requests) = 1
    /\ Len(run.answers) = 1
    /\ run.answers[1].kind = "raise"
    /\ previous = "remote_error"

\* C8: the level selects one instruction string: every level of the list has
\* one, the one explain_code used is the one of the selected level, it is
\* not empty and it differs from the string of every other level.
C8_TemplateSelection ==
    /\ \A level \in LevelChoices : level \in DOMAIN complexity_prompts
    /\ \A i \in 1..Len(run.invocations) :
        /\ run.invocations[i].complexity_level = complexity_level
        /\ run.instruction = complexity_prompts[complexity_level]
        /\ Len(run.instruction) > 0
        /\ \A other \in LevelChoices \ {complexity_level} :
               Instruction(other) # run.instruction
        /\ Len(run.requests) = 1
        /\ StartsWith(run.requests[1].messages[2].content,
                      "\n        " \o run.instruction \o "\n")

C8_Witness ==
    /\ Len(run.invocations) = 1
    /\ complexity_level = "Intermediate"
    /\ StartsWith(run.instruction, "Explain this code clearly")

\* C9: when the construction of the client fails, the Explain action shows
\* errors only, does not invoke explain_code and sends nothing.
C9_NoClientNoRequest ==
    (Explained /\ Len(run.constructions) > 0
               /\ run.constructions[1].raised # "") =>
        /\ run.invocations = <<>>
        /\ run.requests = <<>>
        /\ Len(page.col2) > 0
        /\ \A i \in 1..Len(page.col2) : page.col2[i].kind = "error"
        /\ page.col2[Len(page.col2)] = Element("error", ErrNoClient)

C9_Witness ==
    /\ Explained
    /\ run.outcome = "no_client"
    /\ Len(run.constructions) = 1
    /\ run.constructions[1].raised # ""
    /\ Len(page.col2) = 2

ExplainOutcomes ==
    {"warning", "no_key", "no_client", "waiting", "pending", "remote_error",
     "success"}

\* the inputs of the last Explain action allow an explanation: the code is
\* not blank, the credential is present and the environment lets the
\* client be constructed
InputsPass ==
    /\ Explained
    /\ ~IsBlank(page.code_input)
    /\ Credential # ""
    /\ run.construct = ""

\* C10: in the state an Explain action leaves, whatever its outcome (a call
\* still waited for or an explanation not yet rendered included), every
\* user action is enabled, the Explain action with either behaviour of the
\* client constructor included; and an Explain action that follows an
\* earlier one, whatever the outcome of that one, with code that is not
\* blank, a credential and a constructible client constructs the client,
\* invokes explain_code once and sends one request, and what explain_code
\* returns is rendered when the execution goes on.
C10_ReadyForAnotherAttempt ==
    /\ (Explained /\ run.outcome \in ExplainOutcomes) =>
        /\ \A construct \in ConstructOutcomes :
               ENABLED ExplainCode(construct)
        /\ ENABLED ClearCode
        /\ \A button \in SampleButtons : ENABLED LoadSample(button)
        /\ ENABLED (\E text \in TypedTexts : TypeCode(text))
        /\ ENABLED (\E language \in LanguageChoices :
                        SelectLanguage(language))
        /\ ENABLED (\E level \in LevelChoices : SelectLevel(level))
    /\ (previous \in ExplainOutcomes /\ InputsPass) =>
        /\ ClientBuilt
        /\ Len(run.invocations) = 1
        /\ run.invocations[1].code_snippet = page.code_input
        /\ Len(run.requests) = 1
        /\ run.outcome \in {"waiting", "pending", "success", "remote_error"}
        /\ run.outcome = "waiting" <=> run.returned = <<>>
        /\ run.outcome \in {"waiting", "pending"} =>
               page.col2 = <<Element("spinner", SpinnerText)>>
        /\ run.outcome \in {"success", "remote_error"} =>
               page.col2 = Explanation(run.returned[1])

C10_Witness ==
    /\ previous = "warning"
    /\ InputsPass
    /\ run.outcome = "success"
    /\ Len(run.invocations) = 1

====
